---- MODULE Spec2Model ----
(***************************************************************************)
(* A model of app/parse.py: the pagination-driven crawl loop of main, the  *)
(* author cache, the two parsers get_quotes_from_page and get_author_info, *)
(* and the two CSV writers.                                                *)
(*                                                                         *)
(* Conventions.  Python's None and a missing HTML element are the empty    *)
(* sequence <<>>; an element that is present is the one-element sequence   *)
(* <<content>>.  A URL is a sequence of path segments starting with the    *)
(* host, so that BASE_URL is <<"quotes.toscrape.com">>.  A Python string is  *)
(* a sequence of symbols, "" being <<>>, so that ", ".join can be computed.*)
(***************************************************************************)
EXTENDS Integers, Sequences, FiniteSets, TLC

VARIABLES
    site_next,      \* the web site: page number -> number of the page its "next" control links to (0: no control)
    pc,             \* position of main: "loop", "authors", "write_authors", "done", "aborted"
    url,            \* main's url: the next listing page to fetch, or None
    current_page,   \* main's current_page
    all_quotes,     \* main's all_quotes
    authors_cache,  \* main's authors_cache, a dict in insertion order: sequence of [key, value]
    todo,           \* what the iteration over set(author_links) has not yet yielded
    quotes_csv,     \* the quotes file: None until opened, then its rows
    authors_csv,    \* the authors file: None until opened, then its rows
    log,            \* history: the requests, delays and writes made so far, in order
    probe           \* a single call of one of the pure functions: its argument and result

vars == <<site_next, pc, url, current_page, all_quotes, authors_cache,
          todo, quotes_csv, authors_csv, log, probe>>

crawl_vars == <<site_next, pc, url, current_page, all_quotes, authors_cache,
                todo, quotes_csv, authors_csv, log>>

----------------------------------------------------------------------------
(* Bounds of the model. *)

\* longest chain of distinct listing pages of a site
MaxChain == 2
\* listing-page requests made in one run (a cyclic site never stops by itself)
MaxFetches == MaxChain
\* quote containers on one listing page
MaxEntries == 2
\* quotes accumulated in one run
MaxQuotes == 3
\* tags of one quote, when the tags column is checked alone
MaxTags == 2
\* symbols of one tag, when the tags column is checked alone
MaxTagLen == 2

None == <<>>

\* the string ""
EmptyStr == <<>>

BASE_URL == <<"quotes.toscrape.com">>

\* urljoin(base, href) for a base without a path and a root-relative href:
\* the href's segments follow the host; the empty href gives the base itself.
urljoin(base, href) == base \o href

Min(a, b) == IF a < b THEN a ELSE b

----------------------------------------------------------------------------
(* The data classes. *)

Quote(text, author, tags) == [text |-> text, author |-> author, tags |-> tags]

Author(name, birth_date, birth_location, description) ==
    [name |-> name, birth_date |-> birth_date,
     birth_location |-> birth_location, description |-> description]

\* Author(name="", birth_date="", birth_location="", description="")
EmptyAuthor == Author(EmptyStr, EmptyStr, EmptyStr, EmptyStr)

----------------------------------------------------------------------------
(* What the site can serve. *)

Texts == {<<"A">>, <<"B">>}
AuthorNames == {<<"X">>}
TagLists == {<< <<"a">>, <<"b">> >>}
\* the authors that have a profile page on the site
AuthorIds == {1, 2}

\* an optional element whose content is drawn from S
Opt(S) == {None} \cup {<<s>> : s \in S}

AuthorHref(a) == <<"author", a>>
PageHref(p) == IF p = 1 THEN <<>> ELSE <<"page", p>>
AuthorUrl(a) == urljoin(BASE_URL, AuthorHref(a))
PageUrl(p) == urljoin(BASE_URL, PageHref(p))
AuthorUrls == {AuthorUrl(a) : a \in AuthorIds}

\* a quote container: its .text, its .author, its a[href*='/author/'] (the href), its .tag list
QuoteDivs ==
    [text : Opt(Texts), author : Opt(AuthorNames),
     link : Opt({AuthorHref(a) : a \in AuthorIds}), tags : TagLists]

\* the containers of the crawl: the complete ones and, for each of the three
\* required elements, one container that lacks it alone
SampleDiv ==
    [text |-> <<<<"A">>>>, author |-> <<<<"X">>>>, link |-> <<AuthorHref(2)>>,
     tags |-> << <<"a">>, <<"b">> >>]

CrawlDivs ==
    {d \in QuoteDivs : d.text # None /\ d.author # None /\ d.link # None}
    \cup {[SampleDiv EXCEPT ![f] = None] : f \in {"text", "author", "link"}}

SeqsUpTo(S, n) == UNION {[1..k -> S] : k \in 0..n}

\* the page number a listing URL names
PageOf(u) == IF u = BASE_URL THEN 1 ELSE u[3]

\* the next control of page p: absent, or an anchor with an href
NextBtn(p) == IF site_next[p] = 0 THEN None ELSE <<PageHref(site_next[p])>>

FailStatuses == {"http_error", "network_error"}

\* the responses requests.get can produce for listing page p with at most n containers
PageResponses(p, divs, n) ==
    {[status |-> s, divs |-> <<>>, next |-> None] : s \in FailStatuses}
    \cup {[status |-> "ok", divs |-> d, next |-> NextBtn(p)] : d \in SeqsUpTo(divs, n)}

AuthorDoc(status, title, born_date, born_location, description) ==
    [status |-> status, title |-> title, born_date |-> born_date,
     born_location |-> born_location, description |-> description]

\* the responses for the page of author a in the crawl: a failure, or the complete page
AuthorResponses(a) ==
    {AuthorDoc(s, None, None, None, None) : s \in FailStatuses}
    \cup {AuthorDoc("ok", <<<<"name", a>>>>, <<<<"born", a>>>>, <<<<"place", a>>>>, <<<<"bio", a>>>>)}

----------------------------------------------------------------------------
(* get_quotes_from_page *)

\* ScanQuotes with break in the place of continue: the first incomplete entry ends the scan
RECURSIVE ScanQuotesBreak(_, _)
ScanQuotesBreak(divs, acc) ==
    IF divs = <<>> THEN acc
    ELSE LET quote_div == Head(divs)
         IN IF ~(quote_div.text # None /\ quote_div.author # None /\ quote_div.link # None)
            THEN acc
            ELSE ScanQuotesBreak(Tail(divs),
                                 <<Append(acc[1], Quote(quote_div.text[1], quote_div.author[1],
                                                        quote_div.tags)),
                                   Append(acc[2], urljoin(BASE_URL, quote_div.link[1]))>>)

\* ScanQuotes that records the author link of an entry before it looks at the other elements
RECURSIVE ScanQuotesLinkFirst(_, _)
ScanQuotesLinkFirst(divs, acc) ==
    IF divs = <<>> THEN acc
    ELSE LET quote_div == Head(divs)
             links == IF quote_div.link # None
                      THEN Append(acc[2], urljoin(BASE_URL, quote_div.link[1]))
                      ELSE acc[2]
         IN IF ~(quote_div.text # None /\ quote_div.author # None /\ quote_div.link # None)
            THEN ScanQuotesLinkFirst(Tail(divs), <<acc[1], links>>)
            ELSE ScanQuotesLinkFirst(Tail(divs),
                                     <<Append(acc[1], Quote(quote_div.text[1],
                                                            quote_div.author[1], quote_div.tags)),
                                       links>>)

\* the for loop over soup.select(".quote"): acc is <<quotes_data, author_links>>
RECURSIVE ScanQuotes(_, _)
ScanQuotes(divs, acc) ==
    IF divs = <<>> THEN acc
    ELSE LET quote_div == Head(divs)
             text_tag == quote_div.text
             author_tag == quote_div.author
             author_link_tag == quote_div.link
         IN IF ~(text_tag # None /\ author_tag # None /\ author_link_tag # None)
            THEN ScanQuotes(Tail(divs), acc)
            ELSE LET text == text_tag[1]
                     author == author_tag[1]
                     tags == quote_div.tags
                     author_url == urljoin(BASE_URL, author_link_tag[1])
                 IN ScanQuotes(Tail(divs),
                               <<Append(acc[1], Quote(text, author, tags)),
                                 Append(acc[2], author_url)>>)

\* get_quotes_from_page that never finds the next control
get_quotes_from_page_no_next(response) ==
    IF response.status # "ok"
    THEN [raised |-> TRUE, quotes |-> <<>>, next_url |-> None, author_links |-> <<>>]
    ELSE LET scanned == ScanQuotes(response.divs, <<<<>>, <<>>>>)
         IN [raised |-> FALSE, quotes |-> scanned[1], next_url |-> None,
             author_links |-> scanned[2]]

get_quotes_from_page(response) ==
    IF response.status # "ok"
    THEN [raised |-> TRUE, quotes |-> <<>>, next_url |-> None, author_links |-> <<>>]
    ELSE LET scanned == ScanQuotes(response.divs, <<<<>>, <<>>>>)
             next_btn == response.next
             next_url == IF next_btn # None THEN urljoin(BASE_URL, next_btn[1]) ELSE None
         IN [raised |-> FALSE, quotes |-> scanned[1], next_url |-> next_url,
             author_links |-> scanned[2]]

----------------------------------------------------------------------------
(* get_author_info *)

safe_get(tag) == IF tag # None THEN tag[1] ELSE EmptyStr

\* get_author_info that gives up on the whole page when one element is missing
get_author_info_all_or_nothing(response) ==
    IF response.status # "ok"
    THEN [raised |-> TRUE, value |-> None]
    ELSE IF None \in {response.title, response.born_date, response.born_location,
                      response.description}
    THEN [raised |-> FALSE, value |-> EmptyAuthor]
    ELSE [raised |-> FALSE,
          value |-> Author(response.title[1], response.born_date[1],
                           response.born_location[1], response.description[1])]

get_author_info(response) ==
    IF response.status # "ok"
    THEN [raised |-> TRUE, value |-> None]
    ELSE [raised |-> FALSE,
          value |-> Author(safe_get(response.title), safe_get(response.born_date),
                           safe_get(response.born_location), safe_get(response.description))]

\* main without the try/except: what get_author_info gives is bound as it is
ResolveAuthorUncaught(response) == get_author_info(response).value

\* the try/except of main around get_author_info
ResolveAuthor(response) ==
    LET r == get_author_info(response)
    IN IF r.raised THEN EmptyAuthor ELSE r.value

----------------------------------------------------------------------------
(* The author cache, a dict that keeps insertion order. *)

Range(s) == {s[i] : i \in 1..Len(s)}
\* a cache whose keys are never found
CacheKeysNotFound(cache) == {}
CacheKeys(cache) == {cache[i].key : i \in 1..Len(cache)}
CacheValues(cache) == [i \in 1..Len(cache) |-> cache[i].value]
CacheGet(cache, k) == cache[CHOOSE i \in 1..Len(cache) : cache[i].key = k].value
\* a cache that puts a new key in front of the others
CachePutFront(cache, k, v) == <<[key |-> k, value |-> v]>> \o cache

\* authors_cache[k] = v for a key that is not in the cache
CachePut(cache, k, v) == Append(cache, [key |-> k, value |-> v])

----------------------------------------------------------------------------
(* The CSV rows. *)

\* sep.join(parts)
RECURSIVE Join(_, _)
Join(sep, parts) ==
    IF parts = <<>> THEN <<>>
    ELSE IF Len(parts) = 1 THEN parts[1]
    ELSE parts[1] \o sep \o Join(sep, Tail(parts))

\* a separator without the space
CommaOnly == <<",">>

CommaSpace == <<",", " ">>

QuoteRow(q) == <<q.text, q.author, Join(CommaSpace, q.tags)>>
QuotesHeader == <<<<"text">>, <<"author">>, <<"tags">>>>
\* a writer that writes equal quotes once
RECURSIVE Distinct(_)
Distinct(q) ==
    IF q = <<>> THEN <<>>
    ELSE LET front == Distinct(SubSeq(q, 1, Len(q) - 1))
         IN IF \E i \in 1..Len(front) : front[i] = q[Len(q)] THEN front
            ELSE Append(front, q[Len(q)])

QuotesFileDistinct(quotes) ==
    <<QuotesHeader>> \o [i \in 1..Len(Distinct(quotes)) |-> QuoteRow(Distinct(quotes)[i])]

QuotesFile(quotes) == <<QuotesHeader>> \o [i \in 1..Len(quotes) |-> QuoteRow(quotes[i])]

AuthorRow(a) == <<a.name, a.birth_date, a.birth_location, a.description>>
AuthorsHeader == <<<<"name">>, <<"birth_date">>, <<"birth_location">>, <<"description">>>>
\* a writer that writes the cache from its last entry to its first
AuthorsFileReversed(cache) ==
    <<AuthorsHeader>> \o [i \in 1..Len(cache) |-> AuthorRow(cache[Len(cache) + 1 - i].value)]

AuthorsFile(cache) ==
    <<AuthorsHeader>> \o [i \in 1..Len(cache) |-> AuthorRow(CacheValues(cache)[i])]

----------------------------------------------------------------------------
(* The history. *)

Event(kind, u, quotes, links) == [kind |-> kind, url |-> u, quotes |-> quotes, links |-> links]

\* the entries of a page that have a text, an author name and an author link
Complete(d) == d.text # None /\ d.author # None /\ d.link # None
CompleteDivs(divs) == SelectSeq(divs, Complete)
DivQuote(d) == Quote(d.text[1], d.author[1], d.tags)
DivLink(d) == BASE_URL \o d.link[1]

PageEvent(u, response) ==
    IF response.status # "ok" THEN Event("page_failed", u, <<>>, {})
    ELSE LET c == CompleteDivs(response.divs)
         IN Event("page", u, [i \in 1..Len(c) |-> DivQuote(c[i])],
                  {DivLink(c[i]) : i \in 1..Len(c)})

AuthorEvent(u, response) ==
    Event(IF response.status # "ok" THEN "author_failed" ELSE "author", u, <<>>, {})

PageFetches == Cardinality({i \in 1..Len(log) : log[i].kind \in {"page", "page_failed"}})

Idle == [op |-> "none"]

----------------------------------------------------------------------------
(* main *)

\* the sites: a chain of pages 1 -> 2 -> ... -> n whose last page has no next
\* control or links back to one of the pages of the chain
Sites ==
    {f \in [1..MaxChain -> 0..MaxChain] :
        \E n \in 1..MaxChain :
            /\ \A p \in 1..(n - 1) : f[p] = p + 1
            /\ f[n] \in 0..n
            /\ \A p \in (n + 1)..MaxChain : f[p] = 0}

Init ==
    /\ site_next \in Sites
    /\ pc = "loop"
    /\ url = BASE_URL
    /\ current_page = None
    /\ all_quotes = <<>>
    /\ authors_cache = <<>>
    /\ todo = {}
    /\ quotes_csv = None
    /\ authors_csv = None
    /\ log = <<>>
    /\ probe = Idle

\* FetchPage that puts the quotes of the page in front of the accumulated ones
FetchPagePrepend ==
    /\ pc = "loop"
    /\ url # None
    /\ PageFetches < MaxFetches
    /\ \E response \in PageResponses(PageOf(url), CrawlDivs, Min(MaxEntries, MaxQuotes - Len(all_quotes))) :
        LET r == get_quotes_from_page(response)
        IN /\ ~r.raised
           /\ current_page' = url
           /\ url' = r.next_url
           /\ all_quotes' = r.quotes \o all_quotes
           /\ todo' = Range(r.author_links)
           /\ log' = Append(log, PageEvent(url, response))
    /\ pc' = "authors"
    /\ UNCHANGED <<site_next, authors_cache, quotes_csv, authors_csv, probe>>

\* FetchPage with cycle detection: a next URL that was requested before ends the loop
FetchPageOnce ==
    /\ pc = "loop"
    /\ url # None
    /\ PageFetches < MaxFetches
    /\ \E response \in PageResponses(PageOf(url), CrawlDivs, Min(MaxEntries, MaxQuotes - Len(all_quotes))) :
        LET r == get_quotes_from_page(response)
        IN /\ ~r.raised
           /\ current_page' = url
           /\ url' = IF r.next_url \in {log[i].url : i \in 1..Len(log)} \cup {url}
                      THEN None ELSE r.next_url
           /\ all_quotes' = all_quotes \o r.quotes
           /\ todo' = Range(r.author_links)
           /\ log' = Append(log, PageEvent(url, response))
    /\ pc' = "authors"
    /\ UNCHANGED <<site_next, authors_cache, quotes_csv, authors_csv, probe>>

\* while url: ... get_quotes_from_page(url) returns; all_quotes.extend(quotes)
FetchPage ==
    /\ pc = "loop"
    /\ url # None
    /\ PageFetches < MaxFetches
    /\ \E response \in PageResponses(PageOf(url), CrawlDivs, Min(MaxEntries, MaxQuotes - Len(all_quotes))) :
        LET r == get_quotes_from_page(response)
        IN /\ ~r.raised
           /\ current_page' = url
           /\ url' = r.next_url
           /\ all_quotes' = all_quotes \o r.quotes
           /\ todo' = Range(r.author_links)
           /\ log' = Append(log, PageEvent(url, response))
    /\ pc' = "authors"
    /\ UNCHANGED <<site_next, authors_cache, quotes_csv, authors_csv, probe>>

\* FetchPageFails with the error caught: the loop is left and the files are written
FetchPageFailsCaught ==
    /\ pc = "loop"
    /\ url # None
    /\ PageFetches < MaxFetches
    /\ \E response \in PageResponses(PageOf(url), CrawlDivs, 0) :
        /\ get_quotes_from_page(response).raised
        /\ log' = Append(log, PageEvent(url, response))
    /\ current_page' = url
    /\ url' = None
    /\ UNCHANGED <<site_next, pc, all_quotes, authors_cache, todo,
                   quotes_csv, authors_csv, probe>>

\* while url: ... get_quotes_from_page(url) raises, and nothing in main catches it
FetchPageFails ==
    /\ pc = "loop"
    /\ url # None
    /\ PageFetches < MaxFetches
    /\ \E response \in PageResponses(PageOf(url), CrawlDivs, 0) :
        /\ get_quotes_from_page(response).raised
        /\ log' = Append(log, PageEvent(url, response))
    /\ current_page' = url
    /\ pc' = "aborted"
    /\ UNCHANGED <<site_next, url, all_quotes, authors_cache, todo,
                   quotes_csv, authors_csv, probe>>

\* FetchAuthor without the try/except: a failed author request ends the run
FetchAuthorUncaught ==
    /\ pc = "authors"
    /\ \E author_link \in todo :
        /\ author_link \notin CacheKeys(authors_cache)
        /\ \E response \in AuthorResponses(author_link[3]) :
            LET r == get_author_info(response)
            IN IF r.raised
               THEN /\ pc' = "aborted"
                    /\ log' = Append(log, AuthorEvent(author_link, response))
                    /\ UNCHANGED <<authors_cache, todo>>
               ELSE /\ pc' = pc
                    /\ authors_cache' = CachePut(authors_cache, author_link, r.value)
                    /\ log' = log \o <<AuthorEvent(author_link, response),
                                       Event("sleep", None, <<>>, {})>>
                    /\ todo' = todo \ {author_link}
    /\ UNCHANGED <<site_next, url, current_page, all_quotes,
                   quotes_csv, authors_csv, probe>>

\* for author_link in set(author_links): the link is not in the cache
FetchAuthor ==
    /\ pc = "authors"
    /\ \E author_link \in todo :
        /\ author_link \notin CacheKeys(authors_cache)
        /\ \E response \in AuthorResponses(author_link[3]) :
            /\ authors_cache' = CachePut(authors_cache, author_link, ResolveAuthor(response))
            /\ log' = log \o <<AuthorEvent(author_link, response),
                               Event("sleep", None, <<>>, {})>>
        /\ todo' = todo \ {author_link}
    /\ UNCHANGED <<site_next, pc, url, current_page, all_quotes,
                   quotes_csv, authors_csv, probe>>

\* SkipAuthor that requests a cached author again when the cached Author is empty
SkipAuthorRetry ==
    /\ pc = "authors"
    /\ \E author_link \in todo :
        /\ author_link \in CacheKeys(authors_cache)
        /\ todo' = todo \ {author_link}
        /\ IF CacheGet(authors_cache, author_link) = EmptyAuthor
           THEN \E response \in AuthorResponses(author_link[3]) :
                   /\ authors_cache' =
                         [i \in 1..Len(authors_cache) |->
                             IF authors_cache[i].key = author_link
                             THEN [key |-> author_link, value |-> ResolveAuthor(response)]
                             ELSE authors_cache[i]]
                   /\ log' = log \o <<AuthorEvent(author_link, response),
                                      Event("sleep", None, <<>>, {})>>
           ELSE UNCHANGED <<authors_cache, log>>
    /\ UNCHANGED <<site_next, pc, url, current_page, all_quotes,
                   quotes_csv, authors_csv, probe>>

\* for author_link in set(author_links): the link is in the cache
SkipAuthor ==
    /\ pc = "authors"
    /\ \E author_link \in todo :
        /\ author_link \in CacheKeys(authors_cache)
        /\ todo' = todo \ {author_link}
    /\ UNCHANGED <<site_next, pc, url, current_page, all_quotes, authors_cache,
                   quotes_csv, authors_csv, log, probe>>

\* the for loop is exhausted: print, and back to the while test
EndPage ==
    /\ pc = "authors"
    /\ todo = {}
    /\ pc' = "loop"
    /\ UNCHANGED <<site_next, url, current_page, all_quotes, authors_cache,
                   todo, quotes_csv, authors_csv, log, probe>>

\* WriteQuotes without the while test: the file is written whatever url is
WriteQuotesEarly ==
    /\ pc = "loop"
    /\ quotes_csv' = QuotesFile(all_quotes)
    /\ log' = Append(log, Event("write_quotes", None, <<>>, {}))
    /\ pc' = "write_authors"
    /\ UNCHANGED <<site_next, url, current_page, all_quotes, authors_cache,
                   todo, authors_csv, probe>>

\* the while test fails; the quotes file is opened and written
WriteQuotes ==
    /\ pc = "loop"
    /\ url = None
    /\ quotes_csv' = QuotesFile(all_quotes)
    /\ log' = Append(log, Event("write_quotes", None, <<>>, {}))
    /\ pc' = "write_authors"
    /\ UNCHANGED <<site_next, url, current_page, all_quotes, authors_cache,
                   todo, authors_csv, probe>>

\* the authors file is opened and written; the summary is printed
WriteAuthors ==
    /\ pc = "write_authors"
    /\ authors_csv' = AuthorsFile(authors_cache)
    /\ log' = Append(log, Event("write_authors", None, <<>>, {}))
    /\ pc' = "done"
    /\ UNCHANGED <<site_next, url, current_page, all_quotes, authors_cache,
                   todo, quotes_csv, probe>>

Next ==
    \/ FetchPage
    \/ FetchPageFails
    \/ FetchAuthor
    \/ SkipAuthor
    \/ EndPage
    \/ WriteQuotes
    \/ WriteAuthors

Spec == Init /\ [][Next]_vars

\* main runs on one thread and every request has a timeout: a step that can be taken is taken
FairSpec == Spec /\ WF_vars(Next)

----------------------------------------------------------------------------
(* The two parsers called on their own: probe holds the response handed to   *)
(* the function, what the function returned, and (for get_author_info) the  *)
(* author that the try/except of main binds.                                *)

CrawlIdle ==
    /\ site_next = [p \in 1..MaxChain |-> 0]
    /\ pc = "loop"
    /\ url = BASE_URL
    /\ current_page = None
    /\ all_quotes = <<>>
    /\ authors_cache = <<>>
    /\ todo = {}
    /\ quotes_csv = None
    /\ authors_csv = None
    /\ log = <<>>

\* the listing pages handed to get_quotes_from_page: any containers, any next control
ProbePages ==
    {[status |-> s, divs |-> <<>>, next |-> None] : s \in FailStatuses}
    \cup [status : {"ok"}, divs : SeqsUpTo(QuoteDivs, MaxEntries),
          next : Opt({PageHref(p) : p \in 1..MaxChain})]

InitPage ==
    /\ CrawlIdle
    /\ \E response \in ProbePages :
        probe = [op |-> "get_quotes_from_page", at |-> "call", arg |-> response, ret |-> None]

CallPage ==
    /\ probe.op = "get_quotes_from_page"
    /\ probe.at = "call"
    /\ probe' = [probe EXCEPT !.at = "return", !.ret = get_quotes_from_page(probe.arg)]
    /\ UNCHANGED crawl_vars

NextPage == CallPage

SpecPage == InitPage /\ [][NextPage]_vars

FieldTexts == {<<"v">>, <<"w">>}

\* the author pages handed to get_author_info: every subset of the four elements
ProbeAuthors ==
    {AuthorDoc(s, None, None, None, None) : s \in FailStatuses}
    \cup [status : {"ok"}, title : Opt(FieldTexts), born_date : Opt(FieldTexts),
          born_location : Opt(FieldTexts), description : Opt(FieldTexts)]

InitAuthor ==
    /\ CrawlIdle
    /\ \E response \in ProbeAuthors :
        probe = [op |-> "get_author_info", at |-> "call", arg |-> response,
                 ret |-> None, author |-> None]

\* get_author_info(author_link) returns or raises
CallAuthor ==
    /\ probe.op = "get_author_info"
    /\ probe.at = "call"
    /\ probe' = [probe EXCEPT !.at = "return", !.ret = get_author_info(probe.arg)]
    /\ UNCHANGED crawl_vars

\* main binds author: the returned value, or the empty Author of the except clauses
BindAuthor ==
    /\ probe.op = "get_author_info"
    /\ probe.at = "return"
    /\ probe' = [probe EXCEPT !.at = "bound", !.author = ResolveAuthor(probe.arg)]
    /\ UNCHANGED crawl_vars

NextAuthor ==
    \/ CallAuthor
    \/ BindAuthor

SpecAuthor == InitAuthor /\ [][NextAuthor]_vars

\* the symbols of a tag label
TagSymbols == {"a", ",", " "}

\* the tag lists handed to the writer of the tags column
ProbeTagLists == SeqsUpTo(SeqsUpTo(TagSymbols, MaxTagLen), MaxTags)

InitTags ==
    /\ CrawlIdle
    /\ \E text \in Texts, author \in AuthorNames, tags \in ProbeTagLists :
        probe = [op |-> "writerow", at |-> "call", arg |-> Quote(text, author, tags),
                 ret |-> None]

\* writer.writerow([q.text, q.author, ", ".join(q.tags)])
WriteRow ==
    /\ probe.op = "writerow"
    /\ probe.at = "call"
    /\ probe' = [probe EXCEPT !.at = "return", !.ret = QuoteRow(probe.arg)]
    /\ UNCHANGED crawl_vars

NextTags == WriteRow

SpecTags == InitTags /\ [][NextTags]_vars

TypeOK ==
    /\ pc \in {"loop", "authors", "write_authors", "done", "aborted"}
    /\ todo \subseteq AuthorUrls
    /\ Len(all_quotes) <= MaxQuotes

----------------------------------------------------------------------------
(* What the history says. *)

IsPrefix(s, t) == Len(s) <= Len(t) /\ SubSeq(t, 1, Len(s)) = s

KindIn(kinds) == {i \in 1..Len(log) : log[i].kind \in kinds}
PageIdx == KindIn({"page"})
PageTryIdx == KindIn({"page", "page_failed"})
AuthorTryIdx == KindIn({"author", "author_failed"})

\* the events of history h whose kind is in kinds, in order
RECURSIVE Only(_, _)
Only(h, kinds) ==
    IF h = <<>> THEN <<>>
    ELSE IF Head(h).kind \in kinds THEN <<Head(h)>> \o Only(Tail(h), kinds)
    ELSE Only(Tail(h), kinds)

\* the URLs of the listing pages requested so far, in order
Visited == [i \in 1..Len(Only(log, {"page", "page_failed"})) |->
               Only(log, {"page", "page_failed"})[i].url]

\* the URLs of the author pages requested so far, in order
AuthorsFetched == [i \in 1..Len(Only(log, {"author", "author_failed"})) |->
                      Only(log, {"author", "author_failed"})[i].url]

\* the author links of the complete entries of the pages parsed so far
Referenced == UNION {log[i].links : i \in PageIdx}

\* the complete entries of the pages parsed so far, page after page
RECURSIVE Retained(_)
Retained(h) ==
    IF h = <<>> THEN <<>>
    ELSE (IF Head(h).kind = "page" THEN Head(h).quotes ELSE <<>>) \o Retained(Tail(h))

RECURSIVE RetainedCount(_)
RetainedCount(h) ==
    IF h = <<>> THEN 0
    ELSE (IF Head(h).kind = "page" THEN Len(Head(h).quotes) ELSE 0) + RetainedCount(Tail(h))

\* the listing pages of the site from page p on, following the next controls for at most k pages
RECURSIVE Path(_, _)
Path(p, k) ==
    IF p = 0 \/ k = 0 THEN <<>>
    ELSE <<PageUrl(p)>> \o Path(site_next[p], k - 1)

\* the chain of next controls ends at a page without one
Acyclic == Len(Path(1, MaxChain + 1)) <= MaxChain

LeftLoop == pc \in {"write_authors", "done"}

----------------------------------------------------------------------------
(* The claims. *)

\* C1: every author URL is requested at most once in a run, and a run that
\* completes has requested exactly the distinct author URLs that the complete
\* entries of the visited pages reference (M requests for M distinct URLs).
C1_AuthorFetchedOnce ==
    /\ \A i, j \in AuthorTryIdx : log[i].url = log[j].url => i = j
    /\ {log[i].url : i \in AuthorTryIdx} \subseteq Referenced
    /\ pc = "done" => /\ Cardinality(AuthorTryIdx) = Cardinality(Referenced)
                      /\ {log[i].url : i \in AuthorTryIdx} = Referenced

\* a completed run with three quotes over two pages that reference two author
\* URLs, one of them from both pages
C1_Witness ==
    /\ pc = "done"
    /\ Len(all_quotes) = 3
    /\ Cardinality(PageIdx) = 2
    /\ Cardinality(Referenced) = 2
    /\ Cardinality(AuthorTryIdx) = 2
    /\ \E i, j \in PageIdx : i # j /\ log[i].links \cap log[j].links # {}

\* C2 (safety part): the pages requested are the pages of the chain, each once
\* and in chain order, and when the loop is left on an acyclic site all of
\* them have been requested.
C2_ChainOrder ==
    /\ IsPrefix(Visited, Path(1, MaxFetches))
    /\ (Acyclic /\ LeftLoop) => Visited = Path(1, MaxChain)

\* C2: on an acyclic site the pages of the chain are requested in chain
\* order, and unless a listing-page request fails the run leaves the loop and ends.
C2_Terminates ==
    /\ []C2_ChainOrder
    /\ (Acyclic => <>(pc = "done" \/ pc = "aborted"))

\* a completed run over a chain of two pages
C2_Witness ==
    /\ pc = "done"
    /\ Acyclic
    /\ Visited = <<PageUrl(1), PageUrl(2)>>

\* C3: a failed listing-page request ends the run where it happens: it is the
\* last event of the history, and neither file is written.
C3_PageFailureAborts ==
    /\ \A i \in 1..Len(log) : log[i].kind = "page_failed" => (i = Len(log) /\ pc = "aborted")
    /\ pc = "aborted" => (quotes_csv = None /\ authors_csv = None)

\* the second page fails after quotes and authors were accumulated from the first
C3_Witness ==
    /\ pc = "aborted"
    /\ Len(Visited) = 2
    /\ Len(all_quotes) > 0
    /\ Len(authors_cache) > 0
    /\ quotes_csv = None
    /\ authors_csv = None

\* C4: a failed author request does not end the run: the URL is cached with
\* the empty Author, only a failed listing-page request aborts, and a run that
\* ends writes both files, the authors file with the empty row of that URL.
C4_AuthorFailureAbsorbed ==
    /\ \A i \in 1..Len(log) :
          log[i].kind = "author_failed" =>
              /\ log[i].url \in CacheKeys(authors_cache)
              /\ CacheGet(authors_cache, log[i].url) = EmptyAuthor
    /\ pc = "aborted" => log[Len(log)].kind = "page_failed"
    /\ pc = "done" =>
          /\ quotes_csv # None
          /\ authors_csv # None
          /\ \A k \in 1..Len(authors_cache) :
                (\E i \in 1..Len(log) :
                    log[i].kind = "author_failed" /\ log[i].url = authors_cache[k].key)
                => authors_csv[k + 1] = AuthorRow(EmptyAuthor)

\* an author request fails on the first page; another author and another page
\* are requested afterwards and both files are written
C4_Witness ==
    /\ pc = "done"
    /\ \E i, j, k \in 1..Len(log) :
          /\ i < j /\ j < k
          /\ log[i].kind = "author_failed"
          /\ log[j].kind = "author"
          /\ log[k].kind = "page"
    /\ quotes_csv # None
    /\ authors_csv # None

\* C5: once the quotes file is written, its data rows are as many as the
\* complete entries of all visited pages, equal quotes included.
C5_OneRowPerQuote ==
    quotes_csv # None => Len(quotes_csv) - 1 = RetainedCount(log)

\* a completed run whose quotes file has the same row twice from one page and
\* once more from another page
C5_Witness ==
    /\ pc = "done"
    /\ Len(quotes_csv) = 4
    /\ quotes_csv[2] = quotes_csv[3]
    /\ quotes_csv[3] = quotes_csv[4]
    /\ \E i, j \in PageIdx : i # j /\ Len(log[i].quotes) = 2 /\ Len(log[j].quotes) = 1

\* C6 (state part): the accumulated quotes are the complete entries of the
\* visited pages, page after page in visiting order and in document order
\* within a page, and the rows of the quotes file are these quotes in that order.
C6_Concatenation ==
    /\ all_quotes = Retained(log)
    /\ quotes_csv # None =>
          /\ Len(quotes_csv) = Len(all_quotes) + 1
          /\ \A i \in 1..Len(all_quotes) : quotes_csv[i + 1] = QuoteRow(all_quotes[i])

\* C6: the accumulated quotes are the concatenation of the per-page lists in
\* visiting order, and every step leaves the sequence accumulated so far as a
\* prefix of the new one.
C6_AppendOnly ==
    /\ []C6_Concatenation
    /\ [][IsPrefix(all_quotes, all_quotes')]_vars

\* a completed run with two different quotes from the first page and a third from the second
C6_Witness ==
    /\ pc = "done"
    /\ Len(all_quotes) = 3
    /\ all_quotes[1].text # all_quotes[2].text
    /\ all_quotes[3].text = all_quotes[1].text
    /\ \E i, j \in PageIdx : i < j /\ Len(log[i].quotes) = 2 /\ Len(log[j].quotes) = 1

\* C7 as claimed: on a transport failure get_author_info does not raise and
\* returns the empty Author.
C7_AsClaimed ==
    (probe.op = "get_author_info" /\ probe.at # "call" /\ probe.arg.status # "ok")
    => (~probe.ret.raised /\ probe.ret.value = EmptyAuthor)

\* C7 amended: on a transport failure get_author_info raises, and the
\* try/except of main binds the empty Author.
C7_AbsorbedByMain ==
    (probe.op = "get_author_info" /\ probe.arg.status # "ok")
    => /\ probe.at # "call" => probe.ret.raised
       /\ probe.at = "bound" => probe.author = EmptyAuthor

\* the request failed and main has bound the author
C7_Witness ==
    /\ probe.op = "get_author_info"
    /\ probe.at = "bound"
    /\ probe.arg.status = "http_error"
    /\ probe.ret.raised

\* C8: for an author page that was fetched, get_author_info does not raise
\* and each field of the Author is the text of its element if the element is
\* there, and the empty string if it is not.
FieldOf(response, f) == IF response[f] = None THEN EmptyStr ELSE response[f][1]

C8_FieldsIndependent ==
    (probe.op = "get_author_info" /\ probe.at # "call" /\ probe.arg.status = "ok")
    => /\ ~probe.ret.raised
       /\ probe.ret.value.name = FieldOf(probe.arg, "title")
       /\ probe.ret.value.birth_date = FieldOf(probe.arg, "born_date")
       /\ probe.ret.value.birth_location = FieldOf(probe.arg, "born_location")
       /\ probe.ret.value.description = FieldOf(probe.arg, "description")
       /\ probe.at = "bound" => probe.author = probe.ret.value

\* a page without its birth location: that field alone is empty
C8_Witness ==
    /\ probe.op = "get_author_info"
    /\ probe.at = "return"
    /\ probe.arg.status = "ok"
    /\ probe.arg.born_location = None
    /\ probe.arg.title # None /\ probe.arg.born_date # None /\ probe.arg.description # None
    /\ probe.ret.value.birth_location = EmptyStr
    /\ probe.ret.value.name # EmptyStr
    /\ probe.ret.value.birth_date # EmptyStr
    /\ probe.ret.value.description # EmptyStr

\* C9: get_quotes_from_page does not raise on a page that was fetched; its
\* quotes and author links are those of the complete entries, in document
\* order, an incomplete entry giving neither; the next URL is that of the
\* next control, whatever the entries are.
C9_IncompleteSkipped ==
    (probe.op = "get_quotes_from_page" /\ probe.at = "return" /\ probe.arg.status = "ok")
    => LET c == CompleteDivs(probe.arg.divs)
       IN /\ ~probe.ret.raised
          /\ probe.ret.quotes = [i \in 1..Len(c) |-> DivQuote(c[i])]
          /\ probe.ret.author_links = [i \in 1..Len(c) |-> DivLink(c[i])]
          /\ probe.ret.next_url =
                (IF probe.arg.next = None THEN None ELSE BASE_URL \o probe.arg.next[1])

\* an entry without text, with an author link, before a complete entry of another author
C9_Witness ==
    /\ probe.op = "get_quotes_from_page"
    /\ probe.at = "return"
    /\ probe.arg.status = "ok"
    /\ Len(probe.arg.divs) = 2
    /\ probe.arg.divs[1].text = None
    /\ probe.arg.divs[1].link = <<AuthorHref(1)>>
    /\ Complete(probe.arg.divs[2])
    /\ probe.arg.divs[2].link = <<AuthorHref(2)>>
    /\ Len(probe.ret.quotes) = 1
    /\ probe.ret.author_links = <<AuthorUrl(2)>>
    /\ probe.ret.next_url = PageUrl(2)

\* C10: once the authors file is written it has one data row per referenced
\* author URL, failed requests included, and the rows are the cached authors
\* in the order in which the URLs were requested and put into the cache.
C10_AuthorRows ==
    authors_csv # None =>
        /\ Len(authors_csv) - 1 = Cardinality(Referenced)
        /\ Len(authors_csv) - 1 = Cardinality(CacheKeys(authors_cache))
        /\ Len(AuthorsFetched) = Len(authors_csv) - 1
        /\ \A k \in 1..Len(AuthorsFetched) :
              authors_csv[k + 1] = AuthorRow(CacheGet(authors_cache, AuthorsFetched[k]))

\* a completed run with two authors, the first one's request having failed
C10_Witness ==
    /\ pc = "done"
    /\ Len(authors_csv) = 3
    /\ authors_csv[2] = AuthorRow(EmptyAuthor)
    /\ authors_csv[3] # AuthorRow(EmptyAuthor)
    /\ \E i \in 1..Len(log) : log[i].kind = "author_failed"

\* what a reader of the quotes file does with the tags field: field.split(", ")
ReaderSep == <<",", " ">>

StartsWith(s, sep) == Len(s) >= Len(sep) /\ SubSeq(s, 1, Len(sep)) = sep

RECURSIVE SplitFrom(_, _, _)
SplitFrom(s, sep, piece) ==
    IF s = <<>> THEN <<piece>>
    ELSE IF StartsWith(s, sep)
    THEN <<piece>> \o SplitFrom(SubSeq(s, Len(sep) + 1, Len(s)), sep, <<>>)
    ELSE SplitFrom(Tail(s), sep, Append(piece, Head(s)))

Split(sep, s) == SplitFrom(s, sep, <<>>)

NoComma(tags) == \A i \in 1..Len(tags) : \A k \in 1..Len(tags[i]) : tags[i][k] # ","

Written == probe.op = "writerow" /\ probe.at = "return"

\* C11 as claimed: for every tag sequence without a comma in a tag, the empty
\* sequence included, splitting the written tags field on ", " gives the sequence back.
C11_AsClaimed ==
    (Written /\ NoComma(probe.arg.tags))
    => Split(ReaderSep, probe.ret[3]) = probe.arg.tags

\* C11 amended: for every tag sequence with at least one tag and without a
\* comma in a tag, splitting the written tags field on ", " gives the sequence
\* back; the empty sequence is written as "" and read back as one empty tag.
C11_RoundTrip ==
    /\ (Written /\ NoComma(probe.arg.tags) /\ probe.arg.tags # <<>>)
       => Split(ReaderSep, probe.ret[3]) = probe.arg.tags
    /\ (Written /\ probe.arg.tags = <<>>)
       => (probe.ret[3] = EmptyStr /\ Split(ReaderSep, probe.ret[3]) = <<EmptyStr>>)

\* a row with two tags, one of them with a space inside, read back as written
C11_Witness ==
    /\ Written
    /\ probe.arg.tags = << <<"a", " ">>, <<"a">> >>
    /\ probe.ret[3] = <<"a", " ", ",", " ", "a">>
    /\ Split(ReaderSep, probe.ret[3]) = probe.arg.tags

\* C12: a delay follows each author request, and between every two
\* listing-page requests of a run there is a delay, also when the earlier page
\* references no author that is not yet cached.
C12_DelayBetweenRequests ==
    /\ \A i \in AuthorTryIdx : i < Len(log) /\ log[i + 1].kind = "sleep"
    /\ \A i, j \in PageTryIdx :
          i < j => \E k \in (i + 1)..(j - 1) : log[k].kind = "sleep"

WriteIdx == KindIn({"write_quotes", "write_authors"})
RequestIdx == KindIn({"page", "page_failed", "author", "author_failed"})

\* C13: a file is written only after the loop is left: when the first write
\* happens, the page fetched last is one without a next control and every
\* author link of the visited pages is cached; no request follows a write;
\* the quotes file is written first, the authors file second.
C13_WriteAtTheEnd ==
    /\ \A w \in WriteIdx : \A r \in RequestIdx : r < w
    /\ WriteIdx # {} =>
          /\ Visited # <<>>
          /\ site_next[PageOf(Visited[Len(Visited)])] = 0
          /\ \A i \in PageTryIdx : log[i].kind = "page"
          /\ url = None
          /\ todo = {}
          /\ Referenced \subseteq CacheKeys(authors_cache)
    /\ (quotes_csv # None) = (\E w \in WriteIdx : log[w].kind = "write_quotes")
    /\ (authors_csv # None) = (\E w \in WriteIdx : log[w].kind = "write_authors")
    /\ authors_csv # None => quotes_csv # None
    /\ \A v, w \in WriteIdx :
          (log[v].kind = "write_quotes" /\ log[w].kind = "write_authors") => v < w
    /\ pc \in {"loop", "authors", "aborted"} => WriteIdx = {}

\* the quotes file is written and the authors file is not yet, after two
\* pages and an author request on the last page
C13_Witness ==
    /\ pc = "write_authors"
    /\ quotes_csv # None
    /\ authors_csv = None
    /\ Len(Visited) = 2
    /\ Len(log) >= 2
    /\ log[Len(log)].kind = "write_quotes"
    /\ log[Len(log) - 1].kind = "sleep"

\* the step requested a listing page and parsed it
PageStep == Len(log') = Len(log) + 1 /\ log'[Len(log')].kind = "page"

\* what holds all along a run on a site whose chain of next controls has a cycle
C14_InTheLoop ==
    ~Acyclic =>
        /\ ~LeftLoop
        /\ quotes_csv = None
        /\ authors_csv = None
        /\ pc = "loop" => url # None
        /\ IsPrefix(Visited, Path(1, MaxFetches))

\* C14 as claimed: on a site with a cycle the run never leaves the loop and
\* never writes a file, and between two requests of the same page (one pass
\* over the cycle) the accumulated quotes have grown.
C14_AsClaimed ==
    /\ C14_InTheLoop
    /\ ~Acyclic =>
          \A i, j \in PageIdx :
              (i < j /\ log[i].url = log[j].url)
              => \E k \in PageIdx : i < k /\ k <= j /\ Len(log[k].quotes) > 0

\* C14 amended: on a site with a cycle the run never leaves the loop and
\* never writes a file; the pages are requested along the cycle again and
\* again, and each parsed page appends its complete entries to the
\* accumulated quotes, which therefore grow on a pass exactly when a page of
\* the pass has a complete entry.
C14_NeverEnds ==
    /\ []C14_InTheLoop
    /\ [][(~Acyclic /\ PageStep) => all_quotes' = all_quotes \o log'[Len(log')].quotes]_vars

\* a page that links to itself, requested twice; its quote is appended both times
C14_Witness ==
    /\ ~Acyclic
    /\ Visited = <<PageUrl(1), PageUrl(1)>>
    /\ \A i \in PageTryIdx : log[i].kind = "page" /\ Len(log[i].quotes) = 1
    /\ Len(all_quotes) = 2
    /\ all_quotes[1] = all_quotes[2]
    /\ pc = "loop"
    /\ url = PageUrl(1)

\* what holds of the cache in every state: a key is in it once, and a URL
\* whose request failed was requested once and is cached with the empty Author
C15_FailedKept ==
    /\ \A i, j \in 1..Len(authors_cache) :
          authors_cache[i].key = authors_cache[j].key => i = j
    /\ \A i \in KindIn({"author_failed"}) :
          /\ \A j \in AuthorTryIdx : log[j].url = log[i].url => j = i
          /\ \E k \in 1..Len(authors_cache) :
                authors_cache[k] = [key |-> log[i].url, value |-> EmptyAuthor]

\* C15: every step leaves the entries of the cache as they are, in their
\* places, and at most adds entries at the end; a URL whose request failed
\* keeps the empty Author and is not requested again.
C15_WriteOnce ==
    /\ []C15_FailedKept
    /\ [][IsPrefix(authors_cache, authors_cache')]_vars

\* the request of an author failed on the first page; the second page
\* references the author again and the run ends with the empty Author cached
C15_Witness ==
    /\ pc = "done"
    /\ \E i \in KindIn({"author_failed"}) :
          /\ \E j \in PageIdx : i < j /\ log[i].url \in log[j].links
          /\ CacheGet(authors_cache, log[i].url) = EmptyAuthor
    /\ Cardinality(AuthorTryIdx) = 1

\* C16: whenever main is between two pages or past the loop, the keys of the
\* cache are exactly the author links of the complete entries of the pages
\* visited so far; in between the cache has no key that is not such a link;
\* and in the written authors file every such link has the row of its cached Author.
C16_CacheComplete ==
    /\ CacheKeys(authors_cache) \subseteq Referenced
    /\ pc \in {"loop", "write_authors", "done"} => CacheKeys(authors_cache) = Referenced
    /\ pc = "authors" => Referenced \subseteq (CacheKeys(authors_cache) \cup todo)
    /\ authors_csv # None =>
          \A u \in Referenced :
              \E k \in 1..Len(authors_cache) :
                  /\ authors_cache[k].key = u
                  /\ k + 1 <= Len(authors_csv)
                  /\ authors_csv[k + 1] = AuthorRow(authors_cache[k].value)

\* the first of two pages is processed: both authors it references are cached
\* and the next page is still to be requested
C16_Witness ==
    /\ pc = "loop"
    /\ url = PageUrl(2)
    /\ Len(Visited) = 1
    /\ Referenced = AuthorUrls
    /\ CacheKeys(authors_cache) = AuthorUrls

\* the first page of the run whose complete entries reference author link u
FirstRef(u) == CHOOSE i \in PageIdx : u \in log[i].links /\ \A k \in PageIdx : u \in log[k].links => i <= k

\* C17: every author link of a page is requested before the next listing page
\* is; of two cached links first referenced on different pages, the one of the
\* earlier page is earlier in the cache and in the authors file; among the
\* links of one page that are not cached yet, any one may be the next to be
\* requested and cached.
C17_PageOrder ==
    /\ \A p \in PageIdx : \A q \in PageTryIdx :
          p < q => \A u \in log[p].links :
                      \E a \in AuthorTryIdx : a < q /\ log[a].url = u
    /\ \A x, y \in 1..Len(authors_cache) :
          FirstRef(authors_cache[x].key) < FirstRef(authors_cache[y].key) => x < y
    /\ authors_csv # None =>
          /\ Len(authors_csv) = Len(authors_cache) + 1
          /\ \A k \in 1..Len(authors_cache) :
                authors_csv[k + 1] = AuthorRow(authors_cache[k].value)
    /\ pc = "authors" =>
          \A u \in todo \ CacheKeys(authors_cache) :
              ENABLED (FetchAuthor /\ authors_cache'[Len(authors_cache')].key = u)

\* the first page references the second author only, the second page both:
\* the second author is first in the cache and in the authors file
C17_Witness ==
    /\ pc = "done"
    /\ Cardinality(PageIdx) = 2
    /\ \E p, q \in PageIdx :
          /\ p < q
          /\ log[p].links = {AuthorUrl(2)}
          /\ log[q].links = {AuthorUrl(1), AuthorUrl(2)}
    /\ Len(authors_cache) = 2
    /\ authors_cache[1].key = AuthorUrl(2)
    /\ authors_cache[2].key = AuthorUrl(1)
    /\ authors_cache[1].value # EmptyAuthor
    /\ authors_cache[2].value # EmptyAuthor
    /\ authors_csv[2] = AuthorRow(authors_cache[1].value)
    /\ authors_csv[3] = AuthorRow(authors_cache[2].value)

\* two authors first referenced on the same page, cached in the order 2, 1
C17_SamePageSecondFirst ==
    /\ Cardinality(PageIdx) = 1
    /\ \E p \in PageIdx : log[p].links = {AuthorUrl(1), AuthorUrl(2)}
    /\ Len(authors_cache) = 2
    /\ authors_cache[1].key = AuthorUrl(2)

====
